---- MODULE Spec2Model ----
(***************************************************************************)
(* Attempt engine of the UPSC test generator: the test-taking session      *)
(* (startTest, navigation, mark for review, timer, submission, abandon) of *)
(* the two UI builds in the repository, src/index.tsx ("index") and        *)
(* src/unnamed/part_000 ("part0").                                         *)
(*                                                                         *)
(* Conventions.  JavaScript arrays are sequences read and written through  *)
(* ArrGet / ArrSet with 0-based indices.  null, undefined and NaN are the  *)
(* negative codes Null, Undefined and NaN.  Marks are counted in hundredths of a  *)
(* mark (0.66 is 66), a duration is a rational number of minutes and a     *)
(* score is a reduced fraction [num, den] of a percentage, so that the     *)
(* arithmetic of the code is exact.                                        *)
(***************************************************************************)
EXTENDS Integers, Sequences, FiniteSets, TLC

VARIABLES
    variant,              \* which UI build runs: "index" or "part0"
    view,                 \* the view showView made visible last
    currentTest,          \* let currentTest: Test | null
    currentQuestionIndex, \* let currentQuestionIndex
    userAnswers,          \* let userAnswers: (number | null)[]
    questionStatuses,     \* let questionStatuses: QuestionStatus[]
    timerInterval,        \* let timerInterval: number | null (NoTimer is null)
    activeIntervals,      \* handles of the intervals the browser still fires
    timeRemaining,        \* let timeRemaining (seconds)
    timePerQuestion,      \* let timePerQuestion: number[]
    questionStartTime,    \* let questionStartTime (seconds of the clock)
    now,                  \* Date.now(), in seconds
    selectedOption,       \* input[name="option"]:checked of the rendered question
    performanceHistory,   \* localStorage 'performanceHistory', most recent first
    lastToast,            \* the last message shown by showToast / alert
    tests,                \* localStorage 'tests'
    streakCount,          \* the number shown in #streak-count (Null: never set)
    timeZone,             \* the local time zone of the browser
    generateDisabled,     \* generateTestBtn.disabled
    loaderHidden,         \* loader.classList.contains('hidden')
    pendingRequests,      \* suspended calls of handleGenerateTest: what each awaits
    dbFile,               \* backend: the content of db.json
    dbData,               \* backend: db.data, the store in memory
    handlers,             \* backend: the suspended route handlers
    writeQueue,           \* backend: the contents db.write() has still to write
    serverNow,            \* backend: Date.now() of the server, in ms
    signedTokens,         \* backend: the payloads jwt.sign has signed
    served,               \* backend: the number of requests received
    response              \* backend: the response sent last

vars == <<variant, view, currentTest, currentQuestionIndex, userAnswers,
          questionStatuses, timerInterval, activeIntervals, timeRemaining,
          timePerQuestion, questionStartTime, now, selectedOption,
          performanceHistory, lastToast, tests, streakCount, timeZone,
          generateDisabled, loaderHidden, pendingRequests,
          dbFile, dbData, handlers, writeQueue, serverNow, signedTokens,
          served, response>>

\* the state of the backend process (src/unnamed/part_001)
serverVars == <<dbFile, dbData, handlers, writeQueue, serverNow, signedTokens,
                served, response>>

\* the state of the page outside the attempt engine
formVars == <<generateDisabled, loaderHidden, pendingRequests>>

pageVars == <<tests, streakCount, timeZone, formVars>>

----------------------------------------------------------------------------
(* Bounds *)

\* options per question that the model lets the user pick (the app shows 4)
NumOptions == 2

\* attempts the stored history may hold before no further test is started
MaxHistory == 2

\* seconds the clock advances in the specification with a running clock
MaxClock == 2

\* seconds the time buckets may hold before no further navigation is taken
MaxAccounted == 3

\* tests in the local list and in a backup file when a restore begins
MaxListed == 2

\* attempts the history may hold after a restore
MaxRestored == 3

\* calendar days, counted from the day the page is loaded, that the dashboard
\* specification covers
LastDay == 4

\* attempts in the history that the dashboard specification starts from
MaxStreakHistory == 3

\* requests the backend receives on its data routes
MaxRequests == 3

\* requests the backend receives when accounts are registered
MaxAccountRequests == 4

\* handlers of the backend that are suspended at the same time
MaxInFlight == 2

\* milliseconds the clock of the backend advances
MaxServerClock == 2

----------------------------------------------------------------------------
(* JavaScript values *)

\* null, undefined and NaN where the code holds a non-negative number
Null == -1

Undefined == -2

NaN == -3

\* timerInterval = null
NoTimer == 0

ArrGet(a, i) == IF i >= 0 /\ i < Len(a) THEN a[i + 1] ELSE Undefined

ArrSet(a, i, v) ==
    IF i < Len(a)
    THEN [a EXCEPT ![i + 1] = v]
    ELSE a \o [k \in 1..(i - Len(a)) |-> Undefined] \o <<v>>

ArrFill(n, v) == [k \in 1..n |-> v]

\* the same for arrays of status strings
UndefinedStatus == "undefined"

StatusGet(a, i) == IF i >= 0 /\ i < Len(a) THEN a[i + 1] ELSE UndefinedStatus

StatusSet(a, i, v) ==
    IF i < Len(a)
    THEN [a EXCEPT ![i + 1] = v]
    ELSE a \o [k \in 1..(i - Len(a)) |-> UndefinedStatus] \o <<v>>

NumAdd(a, b) == IF a >= 0 /\ b >= 0 THEN a + b ELSE NaN

JsOr(x, d) == IF x = 0 \/ x = Undefined \/ x = NaN \/ x = Null THEN d ELSE x

Max(a, b) == IF a >= b THEN a ELSE b

RECURSIVE Gcd(_, _)
Gcd(a, b) == IF b = 0 THEN a ELSE Gcd(b, a % b)

\* the fraction n/d (n >= 0, d > 0) in lowest terms
Frac(n, d) == LET g == Gcd(n, d) IN [num |-> n \div g, den |-> d \div g]

FracLeq(x, y) == x.num * y.den <= y.num * x.den

\* JSON.stringify writes undefined array elements and NaN as null
JsonValue(v) == IF v = Undefined \/ v = NaN THEN Null ELSE v

JsonArray(a) == [k \in 1..Len(a) |-> JsonValue(a[k])]

----------------------------------------------------------------------------
(* Data model *)

NotVisited == "notVisited"
NotAnswered == "notAnswered"
Answered == "answered"
Marked == "marked"
MarkedAndAnswered == "markedAndAnswered"

QuestionStatus == {NotVisited, NotAnswered, Answered, Marked, MarkedAndAnswered}

Options == 0..(NumOptions - 1)

\* currentTest = null
NoTest == [id |-> "null"]

\* tests that localStorage 'tests' holds.  The editor saves a test whose last
\* question was deleted, and an import or a restored backup stores any
\* duration and any negativeMarking, 0 included.
TestEmpty ==
    [id |-> "tE", questions |-> <<>>, duration |-> [num |-> 1, den |-> 30],
     marksPerQuestion |-> 200, negativeMarking |-> 66]

TestA ==
    [id |-> "tA", questions |-> <<[answer |-> 0], [answer |-> 1]>>,
     duration |-> [num |-> 1, den |-> 30],
     marksPerQuestion |-> 200, negativeMarking |-> 66]

TestB ==
    [id |-> "tB", questions |-> <<[answer |-> 1], [answer |-> 0]>>,
     duration |-> [num |-> 0, den |-> 1],
     marksPerQuestion |-> 200, negativeMarking |-> 0]

StoredTests == {TestEmpty, TestA, TestB}

\* a test of an earlier session, deleted since
TestOld ==
    [id |-> "tO", questions |-> <<[answer |-> 0]>>,
     duration |-> [num |-> 1, den |-> 1],
     marksPerQuestion |-> 100, negativeMarking |-> 33]

NumQuestions(test) == Len(test.questions)

\* test.duration * 60, in seconds
DurationSeconds(test) == (test.duration.num * 60) \div test.duration.den

\* the view handleSubmitTest falls back to: dashboardView / mainView
SafeView == "main"

\* the view a confirmed abandon shows
AbandonView == IF variant = "index" THEN "main" ELSE "allTests"

DefaultMarks == IF variant = "index" THEN 200 ELSE 100

DefaultNegative == IF variant = "index" THEN 66 ELSE 0

----------------------------------------------------------------------------
(* Scoring *)

\* mutant: a wrong answer is counted only when it is a valid option of a
\* later question, so the wrong answer to the last question is dropped
ClassifyDropsWrong(test, answers, k) ==
    IF ArrGet(answers, k - 1) = Null THEN "unanswered"
    ELSE IF ArrGet(answers, k - 1) = test.questions[k].answer THEN "correct"
    ELSE IF k < NumQuestions(test) THEN "incorrect"
    ELSE "dropped"

\* the forEach of handleSubmitTest: how question k-1 is counted
Classify(test, answers, k) ==
    IF ArrGet(answers, k - 1) = Null THEN "unanswered"
    ELSE IF ArrGet(answers, k - 1) = test.questions[k].answer THEN "correct"
    ELSE "incorrect"

CountOf(test, answers, class) ==
    Cardinality({k \in 1..NumQuestions(test) : Classify(test, answers, k) = class})

\* mutant: the penalty is added instead of subtracted
ScorePercentageAddsPenalty(test, correct, incorrect) ==
    LET marksPerQ == JsOr(test.marksPerQuestion, DefaultMarks)
        negMark == JsOr(test.negativeMarking, DefaultNegative)
        rawScore == (correct * marksPerQ) + (incorrect * negMark)
        totalMaxScore == NumQuestions(test) * marksPerQ
    IN  IF totalMaxScore > 0
        THEN Frac(Max(0, rawScore * 100), totalMaxScore)
        ELSE Frac(0, 1)

\* scorePercentage of handleSubmitTest for the given counts
ScorePercentage(test, correct, incorrect) ==
    LET marksPerQ == JsOr(test.marksPerQuestion, DefaultMarks)
        negMark == JsOr(test.negativeMarking, DefaultNegative)
        rawScore == (correct * marksPerQ) - (incorrect * negMark)
        totalMaxScore == NumQuestions(test) * marksPerQ
    IN  IF totalMaxScore > 0
        THEN Frac(Max(0, rawScore * 100), totalMaxScore)
        ELSE Frac(0, 1)

\* the TestAttempt object handleSubmitTest builds
MakeAttempt(test, answers, times, remaining) ==
    LET correct == CountOf(test, answers, "correct")
        incorrect == CountOf(test, answers, "incorrect")
    IN  [testId |-> test.id,
         completedAt |-> now,
         userAnswers |-> answers,
         timeTaken |-> DurationSeconds(test) - remaining,
         timePerQuestion |-> times,
         score |-> ScorePercentage(test, correct, incorrect),
         totalQuestions |-> NumQuestions(test),
         correctAnswers |-> correct,
         incorrectAnswers |-> incorrect,
         unanswered |-> CountOf(test, answers, "unanswered"),
         fullTest |-> test]

\* the attempt as saveToStorage writes it and getFromStorage reads it back
StoredAttempt(a) ==
    [a EXCEPT !.userAnswers = JsonArray(a.userAnswers),
              !.timePerQuestion = JsonArray(a.timePerQuestion)]

\* mutant: the accuracy is computed without the guard, 0 / 0 being NaN
AccuracyUnguarded(a) ==
    LET attemptedCount == a.correctAnswers + a.incorrectAnswers
    IN  IF attemptedCount = 0 THEN [num |-> NaN, den |-> 1]
        ELSE Frac(a.correctAnswers * 100, attemptedCount)

\* accuracy of renderPerformanceReport, a percentage
Accuracy(a) ==
    LET attemptedCount == a.correctAnswers + a.incorrectAnswers
    IN  IF attemptedCount > 0
        THEN Frac(a.correctAnswers * 100, attemptedCount)
        ELSE Frac(0, 1)

\* renderPerformanceReport throws when it indexes a question or a time that
\* the attempt does not have
ReportThrows(a) ==
    IF variant = "index"
    THEN Len(a.timePerQuestion) > a.totalQuestions
    ELSE Len(a.timePerQuestion) # a.totalQuestions

----------------------------------------------------------------------------
(* Dashboard *)

\* 86400000 ms, in seconds
Day == 86400

\* the hour a daylight-saving switch adds to or takes from a local day
Hour == 3600

\* a time zone without daylight saving
FixedOffset == [dstDay |-> 0, shift |-> 0]

\* local time zones: day dstDay is an hour longer or shorter than 24 hours
TimeZones == {FixedOffset} \cup [dstDay : 1..LastDay, shift : {Hour, 0 - Hour}]

DayLength(zone, d) == IF d = zone.dstDay THEN Day + zone.shift ELSE Day

\* new Date(dateString).getTime(): local midnight of day d.  Day 1 begins at
\* time 0.
RECURSIVE Midnight(_, _)
Midnight(zone, d) ==
    IF d <= 1 THEN (d - 1) * Day
    ELSE Midnight(zone, d - 1) + DayLength(zone, d - 1)

\* new Date(t).toDateString(): the local calendar day of the instant t
DayOf(zone, t) ==
    CHOOSE d \in (0 - 2)..(LastDay + 2) :
        Midnight(zone, d) <= t /\ t < Midnight(zone, d + 1)

\* [...new Set(dates)].sort((a, b) => new Date(b).getTime() - new Date(a).getTime())
RECURSIVE SortedDates(_)
SortedDates(dates) ==
    IF dates = {} THEN <<>>
    ELSE LET latest == CHOOSE d \in dates : \A e \in dates : e <= d
         IN  <<latest>> \o SortedDates(dates \ {latest})

\* the for loop of calculateStreak from index i (1-based here) onward
RECURSIVE StreakFrom(_, _, _)
StreakFrom(zone, uniqueDates, i) ==
    IF i > Len(uniqueDates) THEN 0
    ELSE IF Midnight(zone, uniqueDates[i - 1]) - Midnight(zone, uniqueDates[i]) = Day
         THEN 1 + StreakFrom(zone, uniqueDates, i + 1)
         ELSE 0

calculateStreak(history, zone, clock) ==
    IF Len(history) = 0 THEN 0
    ELSE LET dates == {DayOf(zone, history[k].completedAt) : k \in 1..Len(history)}
             uniqueDates == SortedDates(dates)
             today == DayOf(zone, clock)
             yesterday == DayOf(zone, clock - Day)
         IN  IF uniqueDates[1] = today \/ uniqueDates[1] = yesterday
             THEN 1 + StreakFrom(zone, uniqueDates, 2)
             ELSE 0

----------------------------------------------------------------------------
(* Handlers *)

\* userAnswers after saveCurrentAnswer()
SavedAnswers(answers, index, selected) == ArrSet(answers, index, selected)

\* mutant: a question saved without a selection always becomes notAnswered
SavedStatusesDropsMark(statuses, index, selected) ==
    LET currentStatus == StatusGet(statuses, index)
    IN  IF selected # Null
        THEN StatusSet(statuses, index,
                 IF currentStatus = Marked \/ currentStatus = MarkedAndAnswered
                 THEN MarkedAndAnswered ELSE Answered)
        ELSE StatusSet(statuses, index, NotAnswered)

\* questionStatuses after saveCurrentAnswer(), from the statuses before it
SavedStatuses(statuses, index, selected) ==
    LET currentStatus == StatusGet(statuses, index)
    IN  IF selected # Null
        THEN StatusSet(statuses, index,
                 IF currentStatus = Marked \/ currentStatus = MarkedAndAnswered
                 THEN MarkedAndAnswered ELSE Answered)
        ELSE IF currentStatus # Marked /\ currentStatus # MarkedAndAnswered
             THEN StatusSet(statuses, index, NotAnswered)
             ELSE statuses

\* timePerQuestion[currentQuestionIndex] += (Date.now() - questionStartTime) / 1000
AddTimeSpent(times, index) ==
    ArrSet(times, index, NumAdd(ArrGet(times, index), now - questionStartTime))

\* window.setInterval returns a handle that no live interval has
FreshHandle(live) == CHOOSE h \in 1..(Cardinality(live) + 1) : h \notin live

\* mutant: timerInterval is set to null without clearInterval
StopTimerKeepsInterval(live, handle) == live

\* stopTimer(): the intervals left firing
StopTimer(live, handle) == live \ {handle}

\* mutant: startTimer does not clear the interval it replaces
startTimerKeepsOld(live, handle) ==
    /\ timerInterval' = FreshHandle(live)
    /\ activeIntervals' = live \cup {FreshHandle(live)}

\* startTimer() after any stopTimer of the same handler
startTimer(live, handle) ==
    LET rest == StopTimer(live, handle)
    IN  /\ timerInterval' = FreshHandle(rest)
        /\ activeIntervals' = rest \cup {FreshHandle(rest)}

\* mutant: the upper limit is tested with > instead of >=
TargetIndexOffByOne(test, index, newIndex) ==
    IF newIndex > NumQuestions(test) THEN index
    ELSE IF newIndex < 0 THEN index
    ELSE newIndex

\* the index navigateToQuestion leaves in currentQuestionIndex
TargetIndex(test, index, newIndex) ==
    IF newIndex >= NumQuestions(test) THEN index
    ELSE IF newIndex < 0 THEN index
    ELSE newIndex

\* questionStartTime after navigateToQuestion: part0 restarts it on every
\* path, index only when the index changes to an in-range question
RestartedTime(test, newIndex) ==
    IF variant = "index" /\ (newIndex >= NumQuestions(test) \/ newIndex < 0)
    THEN questionStartTime
    ELSE now

\* navigateToQuestion(newIndex), entered with the statuses its caller left
navigateToQuestion(statuses, newIndex) ==
    LET saved == SavedStatuses(statuses, currentQuestionIndex, selectedOption)
        target == TargetIndex(currentTest, currentQuestionIndex, newIndex)
        moved == newIndex >= 0 /\ newIndex < NumQuestions(currentTest)
    IN  /\ currentTest # NoTest
        /\ timePerQuestion' = AddTimeSpent(timePerQuestion, currentQuestionIndex)
        /\ userAnswers' =
               SavedAnswers(userAnswers, currentQuestionIndex, selectedOption)
        /\ currentQuestionIndex' = target
        /\ questionStartTime' = RestartedTime(currentTest, newIndex)
        /\ questionStatuses' =
               IF moved /\ StatusGet(saved, target) = NotVisited
               THEN StatusSet(saved, target, NotAnswered)
               ELSE saved
        \* renderQuestionForAttempt checks the radio of the stored answer
        /\ selectedOption' =
               IF moved THEN ArrGet(userAnswers', target) ELSE selectedOption
        /\ UNCHANGED <<variant, serverVars, pageVars, view, currentTest, timerInterval, activeIntervals,
                       timeRemaining, now, performanceHistory, lastToast>>

\* startTest(test).  renderQuestionForAttempt throws on a test without
\* questions (q is undefined), before startTimer and showView run.
startTest(test) ==
    /\ currentTest' = test
    /\ currentQuestionIndex' = 0
    /\ userAnswers' = ArrFill(NumQuestions(test), Null)
    /\ questionStatuses' =
           StatusSet(ArrFill(NumQuestions(test), NotVisited), 0, NotAnswered)
    /\ timeRemaining' = DurationSeconds(test)
    /\ timePerQuestion' = ArrFill(NumQuestions(test), 0)
    /\ questionStartTime' = now
    /\ IF NumQuestions(test) = 0
       THEN UNCHANGED <<selectedOption, timerInterval, activeIntervals, view>>
       ELSE /\ selectedOption' = Null
            /\ startTimer(activeIntervals, timerInterval)
            /\ view' = "attempt"
    /\ UNCHANGED <<variant, serverVars, pageVars, now, performanceHistory, lastToast>>

\* mutant: history.push(attempt)
PushAttempt(history, attempt) == history \o <<attempt>>

\* history.unshift(attempt)
PrependAttempt(history, attempt) == <<attempt>> \o history

\* mutant: the missing-test branch returns without showView
MissingTestViewStays(current) == current

\* the view the missing-test branch of handleSubmitTest shows
MissingTestView(current) == SafeView

\* the message a successful submission leaves: index shows a toast, part0
\* shows nothing more
SubmittedToast(previous) == IF variant = "index" THEN "submitted" ELSE previous

\* handleSubmitTest() with timeRemaining = remaining; previous is the message
\* on screen when it is called
handleSubmitTest(remaining, previous) ==
    LET times == AddTimeSpent(timePerQuestion, currentQuestionIndex)
        answers == SavedAnswers(userAnswers, currentQuestionIndex, selectedOption)
        attempt == MakeAttempt(currentTest, answers, times, remaining)
    IN  /\ timerInterval' = NoTimer
        /\ activeIntervals' = StopTimer(activeIntervals, timerInterval)
        /\ timePerQuestion' = times
        /\ userAnswers' = answers
        /\ questionStatuses' =
               SavedStatuses(questionStatuses, currentQuestionIndex, selectedOption)
        /\ timeRemaining' = remaining
        /\ IF currentTest = NoTest
           THEN /\ lastToast' = "missing"
                /\ view' = MissingTestView(view)
                /\ UNCHANGED <<currentTest, performanceHistory>>
           ELSE /\ performanceHistory' =
                       PrependAttempt(performanceHistory, StoredAttempt(attempt))
                /\ currentTest' = NoTest
                /\ IF ReportThrows(attempt)
                   THEN view' = SafeView /\ lastToast' = "submitError"
                   ELSE view' = "report" /\ lastToast' = SubmittedToast(previous)
        /\ UNCHANGED <<variant, serverVars, pageVars, currentQuestionIndex, questionStartTime, now,
                       selectedOption>>

----------------------------------------------------------------------------
(* Backend store when the server starts *)

\* req.user when authenticateToken has not set it
NoUser == [id |-> 0, email |-> "-"]

\* the users db.json holds when the server starts
UserA == [id |-> 1, email |-> "a"]

UserB == [id |-> 2, email |-> "b"]

EmptyStore == [users |-> <<>>, tests |-> <<>>, attempts |-> <<>>]

NoResponse ==
    [route |-> "-", user |-> NoUser, status |-> 0,
     tests |-> <<>>, attempts |-> <<>>, token |-> NoUser]

InitServer ==
    /\ dbFile = [EmptyStore EXCEPT !.users = <<UserA, UserB>>]
    /\ dbData = dbFile
    /\ handlers = <<>>
    /\ writeQueue = <<>>
    /\ serverNow = 3
    /\ signedTokens = {UserA, UserB}
    /\ served = 0
    /\ response = NoResponse

----------------------------------------------------------------------------
(* Events *)

\* the state of the page once the script has run; localStorage holds the
\* attempt of an earlier session, completed at noon of the day before
PriorAttempt ==
    [StoredAttempt(MakeAttempt(TestOld, <<0>>, <<7>>, 53))
         EXCEPT !.completedAt = 0 - (Day \div 2)]

InitAttempt ==
    /\ variant \in {"index", "part0"}
    /\ view = "main"
    /\ currentTest = NoTest
    /\ currentQuestionIndex = 0
    /\ userAnswers = <<>>
    /\ questionStatuses = <<>>
    /\ timerInterval = NoTimer
    /\ activeIntervals = {}
    /\ timeRemaining = 0
    /\ timePerQuestion = <<>>
    /\ questionStartTime = 0
    /\ now = 0
    /\ selectedOption = Null
    /\ performanceHistory = <<PriorAttempt>>
    /\ lastToast = "none"

\* the create form before any click: button enabled, loader hidden
InitForm ==
    /\ generateDisabled = FALSE
    /\ loaderHidden = TRUE
    /\ pendingRequests = <<>>

\* updateDashboardStats(), which only index has
ShownStreak(history) ==
    IF variant = "index" THEN calculateStreak(history, timeZone, now)
    ELSE streakCount

Init ==
    /\ InitAttempt
    /\ InitForm
    /\ InitServer
    /\ tests = <<TestEmpty, TestA, TestB>>
    /\ timeZone = FixedOffset
    /\ streakCount = (IF variant = "index"
                      THEN calculateStreak(performanceHistory, timeZone, now)
                      ELSE Null)

attemptVars ==
    <<currentTest, currentQuestionIndex, userAnswers, questionStatuses,
      timerInterval, activeIntervals, timeRemaining, timePerQuestion,
      questionStartTime, now, selectedOption, performanceHistory, lastToast>>

\* bottom navigation, dashboard cards and back buttons.  index shows the
\* bottom navigation in every view but the attempt view; part0 has the
\* cards on the main view and a back button in each other view.
Navigate(target) ==
    /\ target \in {"main", "create", "allTests"}
    /\ view # "attempt"
    /\ view # target
    /\ \/ variant = "index"
       \/ variant = "part0" /\ view = "main"
       \/ variant = "part0" /\ view \in {"create", "allTests"} /\ target = "main"
       \/ variant = "part0" /\ view \in {"detail", "report"} /\ target = "allTests"
    /\ view' = target
    /\ streakCount' = (IF target = "main" THEN ShownStreak(performanceHistory)
                       ELSE streakCount)
    /\ UNCHANGED <<variant, serverVars, tests, timeZone, formVars, attemptVars>>

\* index: showView(testAttemptView) un-hides the create button, whose click
\* shows the create view
FabCreate ==
    /\ variant = "index"
    /\ view = "attempt"
    /\ view' = "create"
    /\ UNCHANGED <<variant, serverVars, pageVars, attemptVars>>

\* click on a test card: renderTestDetail(test); showView(testDetailView)
OpenTestDetail(test) ==
    /\ view = "allTests"
    /\ currentTest' = test
    /\ view' = "detail"
    /\ UNCHANGED <<variant, serverVars, pageVars, currentQuestionIndex, userAnswers, questionStatuses,
                   timerInterval, activeIntervals, timeRemaining, timePerQuestion,
                   questionStartTime, now, selectedOption, performanceHistory,
                   lastToast>>

\* click on .start-btn of a test card
StartFromList(test) ==
    /\ view = "allTests"
    /\ Len(performanceHistory) < MaxHistory
    /\ startTest(test)

\* click on #start-test-btn of the detail view
StartFromDetail ==
    /\ view = "detail"
    /\ currentTest # NoTest
    /\ Len(performanceHistory) < MaxHistory
    /\ startTest(currentTest)

\* the user checks a radio button (click or keys 1-4)
SelectOption(option) ==
    /\ view = "attempt"
    /\ selectedOption' = option
    /\ UNCHANGED <<variant, serverVars, pageVars, view, currentTest, currentQuestionIndex, userAnswers,
                   questionStatuses, timerInterval, activeIntervals, timeRemaining,
                   timePerQuestion, questionStartTime, now, performanceHistory,
                   lastToast>>

\* mutant: clearing the selection also clears the stored answer
ClearResponseCommits ==
    /\ view = "attempt"
    /\ selectedOption' = Null
    /\ userAnswers' = SavedAnswers(userAnswers, currentQuestionIndex, Null)
    /\ UNCHANGED <<variant, serverVars, pageVars, view, currentTest, currentQuestionIndex,
                   questionStatuses, timerInterval, activeIntervals, timeRemaining,
                   timePerQuestion, questionStartTime, now, performanceHistory,
                   lastToast>>

\* clearResponseBtn
ClearResponse ==
    /\ view = "attempt"
    /\ selectedOption' = Null
    /\ UNCHANGED <<variant, serverVars, pageVars, view, currentTest, currentQuestionIndex, userAnswers,
                   questionStatuses, timerInterval, activeIntervals, timeRemaining,
                   timePerQuestion, questionStartTime, now, performanceHistory,
                   lastToast>>

\* saveNextBtn
SaveAndNext ==
    /\ view = "attempt"
    /\ navigateToQuestion(questionStatuses, currentQuestionIndex + 1)

\* prevQuestionBtn, which only index has
PreviousQuestion ==
    /\ variant = "index"
    /\ view = "attempt"
    /\ navigateToQuestion(questionStatuses, currentQuestionIndex - 1)

\* click on a palette button other than the current question's
PaletteClick(newIndex) ==
    /\ view = "attempt"
    /\ currentTest # NoTest
    /\ newIndex \in 0..(NumQuestions(currentTest) - 1)
    /\ newIndex # currentQuestionIndex
    /\ navigateToQuestion(questionStatuses, newIndex)

\* the statuses markReviewBtn's handler sets before it navigates
MarkedStatuses(statuses, index) ==
    IF StatusGet(statuses, index) = Answered
       \/ StatusGet(statuses, index) = MarkedAndAnswered
    THEN StatusSet(statuses, index, MarkedAndAnswered)
    ELSE StatusSet(statuses, index, Marked)

\* markReviewBtn
MarkForReview ==
    /\ view = "attempt"
    /\ navigateToQuestion(MarkedStatuses(questionStatuses, currentQuestionIndex),
                          currentQuestionIndex + 1)

\* submit button: index asks for confirmation, part0 submits at once
SubmitClick(confirmed) ==
    /\ view = "attempt"
    /\ IF variant = "index" /\ ~confirmed
       THEN UNCHANGED vars
       ELSE handleSubmitTest(timeRemaining, lastToast)

\* mutant: part0 does not start the timer again after a declined abandon
AbandonClickNoRestart(confirmed) ==
    /\ view = "attempt"
    /\ IF confirmed
       THEN /\ timerInterval' = NoTimer
            /\ activeIntervals' = StopTimer(activeIntervals, timerInterval)
            /\ currentTest' = NoTest
            /\ streakCount' = ShownStreak(performanceHistory)
            /\ view' = AbandonView
       ELSE /\ IF variant = "part0"
               THEN /\ timerInterval' = NoTimer
                    /\ activeIntervals' = StopTimer(activeIntervals, timerInterval)
               ELSE UNCHANGED <<timerInterval, activeIntervals>>
            /\ UNCHANGED <<currentTest, view, streakCount>>
    /\ UNCHANGED <<variant, serverVars, tests, timeZone, formVars, currentQuestionIndex,
                   userAnswers, questionStatuses, timeRemaining, timePerQuestion,
                   questionStartTime, now,
                   selectedOption, performanceHistory, lastToast>>

\* abandon button.  index asks first and stops the timer when confirmed;
\* part0 stops the timer, asks, and starts a new timer when declined.
AbandonClick(confirmed) ==
    /\ view = "attempt"
    /\ IF confirmed
       THEN /\ timerInterval' = NoTimer
            /\ activeIntervals' = StopTimer(activeIntervals, timerInterval)
            /\ currentTest' = NoTest
            /\ streakCount' = ShownStreak(performanceHistory)
            /\ view' = AbandonView
       ELSE /\ IF variant = "part0" /\ timerInterval # NoTimer
               THEN startTimer(activeIntervals, timerInterval)
               ELSE /\ activeIntervals' = (IF variant = "part0"
                                           THEN StopTimer(activeIntervals, timerInterval)
                                           ELSE activeIntervals)
                    /\ UNCHANGED timerInterval
            /\ UNCHANGED <<currentTest, view, streakCount>>
    /\ UNCHANGED <<variant, serverVars, tests, timeZone, formVars, currentQuestionIndex,
                   userAnswers, questionStatuses, timeRemaining, timePerQuestion,
                   questionStartTime, now,
                   selectedOption, performanceHistory, lastToast>>

\* the callback of the interval with this handle fires
TimerTick(handle) ==
    /\ handle \in activeIntervals
    /\ IF timeRemaining - 1 <= 0
       THEN handleSubmitTest(timeRemaining - 1, "timeUp")
       ELSE /\ timeRemaining' = timeRemaining - 1
            /\ UNCHANGED <<variant, serverVars, pageVars, view, currentTest, currentQuestionIndex,
                           userAnswers, questionStatuses, timerInterval,
                           activeIntervals, timePerQuestion, questionStartTime,
                           now, selectedOption, performanceHistory, lastToast>>

Next ==
    \/ \E target \in {"main", "create", "allTests"} : Navigate(target)
    \/ FabCreate
    \/ \E test \in StoredTests : OpenTestDetail(test)
    \/ \E test \in StoredTests : StartFromList(test)
    \/ StartFromDetail
    \/ \E option \in Options : SelectOption(option)
    \/ ClearResponse
    \/ SaveAndNext
    \/ PreviousQuestion
    \/ \E newIndex \in 0..1 : PaletteClick(newIndex)
    \/ MarkForReview
    \/ \E confirmed \in BOOLEAN : SubmitClick(confirmed)
    \/ \E confirmed \in BOOLEAN : AbandonClick(confirmed)
    \/ \E handle \in activeIntervals : TimerTick(handle)

Spec == Init /\ [][Next]_vars

\* handleSubmitTest called while no test is active, the case its guard is for;
\* no control of either page calls it in that state
DirectSubmit ==
    /\ currentTest = NoTest
    /\ handleSubmitTest(timeRemaining, lastToast)

NextCall == Next \/ DirectSubmit

SpecCall == Init /\ [][NextCall]_vars

\* a second of wall-clock time passes (Date.now() grows by 1000)
Elapse ==
    /\ now < MaxClock
    /\ now' = now + 1
    /\ UNCHANGED <<variant, serverVars, pageVars, view, currentTest, currentQuestionIndex, userAnswers,
                   questionStatuses, timerInterval, activeIntervals, timeRemaining,
                   timePerQuestion, questionStartTime, selectedOption,
                   performanceHistory, lastToast>>

RECURSIVE SumSeq(_)
SumSeq(a) == IF a = <<>> THEN 0 ELSE Head(a) + SumSeq(Tail(a))

\* the seconds the buckets would hold if the attempt were submitted now:
\* timePerQuestion plus the timeSpent that the next handler adds
Accounted == SumSeq(timePerQuestion) + (now - questionStartTime)

\* one attempt from start to submission while the clock runs
NextClock ==
    \/ Navigate("allTests")
    \/ \E test \in StoredTests : StartFromList(test)
    \/ \E option \in Options : SelectOption(option)
    \/ ClearResponse
    \/ Accounted <= MaxAccounted /\ SaveAndNext
    \/ Accounted <= MaxAccounted /\ PreviousQuestion
    \/ \E newIndex \in 0..1 : PaletteClick(newIndex)
    \/ Accounted <= MaxAccounted /\ MarkForReview
    \/ SubmitClick(TRUE)
    \/ Elapse

SpecClock == Init /\ [][NextClock]_vars

----------------------------------------------------------------------------
(* Backup restore *)

\* tests as a backup file and the local list hold them: an id and the rest
\* of the content
ListedTest == [id : {"t1", "t2"}, name : {"x", "y"}]

RECURSIVE SeqsUpTo(_, _)
SeqsUpTo(S, n) ==
    IF n = 0 THEN {<<>>}
    ELSE SeqsUpTo(S, n - 1) \cup
         {Append(q, x) : q \in {r \in SeqsUpTo(S, n - 1) : Len(r) = n - 1}, x \in S}

TestLists == SeqsUpTo(ListedTest, MaxListed)

\* the parsed backup file: ok is FALSE when JSON.parse or a property read
\* throws; hasTests and hasHistory say whether data.tests and
\* data.performanceHistory are arrays
BackupFiles ==
    [ok : BOOLEAN, hasTests : BOOLEAN, tests : TestLists,
     hasHistory : BOOLEAN, performanceHistory : {<<>>, <<PriorAttempt>>}]

\* map.set(item.id, item): a known key keeps its place and gets the new value
MapSet(entries, item) ==
    IF \E k \in 1..Len(entries) : entries[k].id = item.id
    THEN [k \in 1..Len(entries) |->
             IF entries[k].id = item.id THEN item ELSE entries[k]]
    ELSE Append(entries, item)

\* Array.from(new Map(list.map(item => [item.id, item])).values()), the
\* entries of list being added to the map from entries onward
RECURSIVE MapValues(_, _)
MapValues(entries, list) ==
    IF list = <<>> THEN entries
    ELSE MapValues(MapSet(entries, Head(list)), Tail(list))

\* const newTests = Array.isArray(data.tests) ? [...data.tests, ...currentTests] : currentTests
NewTests(data, currentTests) ==
    IF data.hasTests THEN data.tests \o currentTests ELSE currentTests

\* mutant: the merged list is stored as it is
UniqueTestsKeepsAll(newTests) == newTests

\* const uniqueTests = Array.from(new Map(...).values())
UniqueTests(newTests) == MapValues(<<>>, newTests)

NewHistory(data, currentHistory) ==
    IF data.hasHistory THEN data.performanceHistory \o currentHistory
    ELSE currentHistory

\* part0 takes a file for a backup only when one of the two arrays is there
IsBackup(data) == variant = "index" \/ data.hasTests \/ data.hasHistory

\* reader.onload of the restore file input, with the answer to confirm()
RestoreBackup(data, confirmed) ==
    /\ view # "attempt"
    /\ IF ~data.ok \/ ~IsBackup(data)
       THEN /\ lastToast' = "restoreFailed"
            /\ UNCHANGED <<tests, performanceHistory, streakCount>>
       ELSE IF ~confirmed
       THEN UNCHANGED <<tests, performanceHistory, lastToast, streakCount>>
       ELSE /\ tests' = UniqueTests(NewTests(data, tests))
            /\ performanceHistory' = NewHistory(data, performanceHistory)
            /\ streakCount' = ShownStreak(NewHistory(data, performanceHistory))
            /\ lastToast' = "restored"
    /\ UNCHANGED <<variant, serverVars, timeZone, formVars, view, currentTest, currentQuestionIndex, userAnswers,
                   questionStatuses, timerInterval, activeIntervals, timeRemaining,
                   timePerQuestion, questionStartTime, now, selectedOption>>

InitRestore ==
    /\ InitAttempt
    /\ InitForm
    /\ InitServer
    /\ tests \in TestLists
    /\ timeZone = FixedOffset
    /\ streakCount = (IF variant = "index"
                      THEN calculateStreak(performanceHistory, timeZone, now)
                      ELSE Null)

NextRestore ==
    \E data \in BackupFiles, confirmed \in BOOLEAN :
        /\ Len(NewHistory(data, performanceHistory)) <= MaxRestored
        /\ RestoreBackup(data, confirmed)

SpecRestore == InitRestore /\ [][NextRestore]_vars

----------------------------------------------------------------------------
(* Dashboard with a history of several days *)

\* the instants the clock takes: midnight and noon of the days 2..LastDay
ClockInstants(zone) ==
    {Midnight(zone, d) : d \in 2..LastDay}
        \cup {Midnight(zone, d) + (Day \div 2) : d \in 2..LastDay}

\* attempts completed at noon of one of the days 1..LastDay
DatedAttempts(zone) ==
    {[PriorAttempt EXCEPT !.completedAt = Midnight(zone, d) + (Day \div 2)] :
        d \in 1..LastDay}

InitStreak ==
    /\ InitAttempt
    /\ InitForm
    /\ InitServer
    /\ variant = "index"
    /\ tests = <<TestEmpty, TestA, TestB>>
    /\ timeZone \in TimeZones
    /\ streakCount = Null

\* the page is loaded at one of the instants with a stored history that was
\* completed before it: checkExistingSession calls updateDashboardStats
LoadPage(clock, history) ==
    /\ streakCount = Null
    /\ clock \in ClockInstants(timeZone)
    /\ \A k \in 1..Len(history) : history[k].completedAt <= clock
    /\ now' = clock
    /\ performanceHistory' = history
    /\ streakCount' = calculateStreak(history, timeZone, clock)
    /\ UNCHANGED <<variant, serverVars, tests, timeZone, formVars, view, currentTest,
                   currentQuestionIndex, userAnswers, questionStatuses,
                   timerInterval, activeIntervals, timeRemaining, timePerQuestion,
                   questionStartTime, selectedOption, lastToast>>

\* the clock reaches the next midnight or noon
TimePasses(clock) ==
    /\ streakCount # Null
    /\ clock \in ClockInstants(timeZone)
    /\ clock > now
    /\ \A other \in ClockInstants(timeZone) : other > now => clock <= other
    /\ now' = clock
    /\ UNCHANGED <<variant, serverVars, pageVars, view, currentTest, currentQuestionIndex,
                   userAnswers, questionStatuses, timerInterval, activeIntervals,
                   timeRemaining, timePerQuestion, questionStartTime,
                   selectedOption, performanceHistory, lastToast>>

NextStreak ==
    \/ \E clock \in ClockInstants(timeZone),
          history \in SeqsUpTo(DatedAttempts(timeZone), MaxStreakHistory) :
           LoadPage(clock, history)
    \/ \E clock \in ClockInstants(timeZone) : TimePasses(clock)
    \/ \E target \in {"main", "allTests"} : streakCount # Null /\ Navigate(target)

SpecStreak == InitStreak /\ [][NextStreak]_vars

----------------------------------------------------------------------------
(* Test generation *)

\* what the form holds when the button is clicked: an input the validation
\* rejects before any await (empty topic or text, no file, unsupported file
\* type), a topic or text, or a TXT / PDF file that is read first
FormInputs == {"invalid", "text", "file"}

\* how the awaited generateContent call ends: a list of questions, a response
\* without text or without a non-empty array, a thrown error, or a non-empty
\* array with an item that renderEditableTest cannot render (q.options.map
\* throws on an item without options)
Outcomes == {"questions", "unusable", "error", "malformed"}

\* the test handleGenerateTest builds from the response
GeneratedTest ==
    [id |-> "tG", questions |-> <<[answer |-> 1]>>,
     duration |-> [num |-> 30, den |-> 1],
     marksPerQuestion |-> DefaultMarks, negativeMarking |-> DefaultNegative]

\* the test built from a non-empty array whose item has no options
MalformedTest ==
    [id |-> "tM", questions |-> <<[answer |-> Undefined]>>,
     duration |-> [num |-> 30, den |-> 1],
     marksPerQuestion |-> DefaultMarks, negativeMarking |-> DefaultNegative]

RemoveAt(requests, i) ==
    [k \in 1..(Len(requests) - 1) |-> IF k < i THEN requests[k] ELSE requests[k + 1]]

\* mutant: the finally block hides the loader only
GenerateFinallyKeepsDisabled ==
    /\ loaderHidden' = TRUE
    /\ UNCHANGED generateDisabled

\* the finally block of handleGenerateTest
GenerateFinally ==
    /\ loaderHidden' = TRUE
    /\ generateDisabled' = FALSE

\* the catch block followed by the finally block
GenerateFailed ==
    /\ lastToast' = "generateFailed"
    /\ GenerateFinally
    /\ UNCHANGED <<view, currentTest>>

\* click on generateTestBtn, which a disabled button does not deliver:
\* handleGenerateTest up to its first await or, for an invalid input, to its end
GenerateClick(input) ==
    /\ view = "create"
    /\ ~generateDisabled
    /\ IF input = "invalid"
       THEN GenerateFailed /\ UNCHANGED pendingRequests
       ELSE /\ loaderHidden' = FALSE
            /\ generateDisabled' = TRUE
            /\ pendingRequests' =
                   Append(pendingRequests, IF input = "file" THEN "file" ELSE "ai")
            /\ UNCHANGED <<view, currentTest, lastToast>>
    /\ UNCHANGED <<variant, serverVars, tests, streakCount, timeZone, currentQuestionIndex,
                   userAnswers, questionStatuses, timerInterval, activeIntervals,
                   timeRemaining, timePerQuestion, questionStartTime, now,
                   selectedOption, performanceHistory>>

\* the awaited file.text() / PDF extraction of request i ends: with enough
\* text the handler goes on to generateContent, otherwise it throws
FileRead(i, readable) ==
    /\ i \in 1..Len(pendingRequests)
    /\ pendingRequests[i] = "file"
    /\ IF readable
       THEN /\ pendingRequests' = [pendingRequests EXCEPT ![i] = "ai"]
            /\ UNCHANGED <<view, currentTest, lastToast, generateDisabled,
                           loaderHidden>>
       ELSE /\ pendingRequests' = RemoveAt(pendingRequests, i)
            /\ GenerateFailed
    /\ UNCHANGED <<variant, serverVars, tests, streakCount, timeZone, currentQuestionIndex,
                   userAnswers, questionStatuses, timerInterval, activeIntervals,
                   timeRemaining, timePerQuestion, questionStartTime, now,
                   selectedOption, performanceHistory>>

\* the awaited generateContent of request i ends
GenerateSettled(i, outcome) ==
    /\ i \in 1..Len(pendingRequests)
    /\ pendingRequests[i] = "ai"
    /\ pendingRequests' = RemoveAt(pendingRequests, i)
    /\ IF outcome = "questions"
       THEN /\ currentTest' = GeneratedTest
            /\ view' = "edit"
            /\ lastToast' = (IF variant = "index" THEN "generated" ELSE lastToast)
            /\ GenerateFinally
       ELSE IF outcome = "malformed"
       \* currentTest is assigned, then renderEditableTest throws into the catch
       THEN /\ currentTest' = MalformedTest
            /\ lastToast' = "generateFailed"
            /\ GenerateFinally
            /\ UNCHANGED view
       ELSE GenerateFailed
    /\ UNCHANGED <<variant, serverVars, tests, streakCount, timeZone, currentQuestionIndex,
                   userAnswers, questionStatuses, timerInterval, activeIntervals,
                   timeRemaining, timePerQuestion, questionStartTime, now,
                   selectedOption, performanceHistory>>

NextGenerate ==
    \/ \E target \in {"main", "create", "allTests"} : Navigate(target)
    \/ \E test \in StoredTests : OpenTestDetail(test)
    \/ \E input \in FormInputs : GenerateClick(input)
    \/ \E i \in 1..Len(pendingRequests), readable \in BOOLEAN : FileRead(i, readable)
    \/ \E i \in 1..Len(pendingRequests), outcome \in Outcomes :
           GenerateSettled(i, outcome)

SpecGenerate == Init /\ [][NextGenerate]_vars

\* every awaited promise settles
FairGenerate ==
    /\ SpecGenerate
    /\ WF_vars(\E i \in 1..Len(pendingRequests), readable \in BOOLEAN :
                   FileRead(i, readable))
    /\ WF_vars(\E i \in 1..Len(pendingRequests), outcome \in Outcomes :
                   GenerateSettled(i, outcome))

\* a generation request and one attempt in the same session: the request
\* stays suspended while the user goes to the list and starts a test
NextSession ==
    \/ NextGenerate
    \/ \E test \in StoredTests : StartFromList(test)
    \/ \E option \in Options : SelectOption(option)
    \/ SaveAndNext
    \/ SubmitClick(TRUE)
    \/ \E handle \in activeIntervals : TimerTick(handle)

SpecSession == Init /\ [][NextSession]_vars

----------------------------------------------------------------------------
(* Backend: the Express routes over the lowdb store *)

\* String.prototype.toLowerCase on the emails the model uses
Lower(email) ==
    IF email = "A" THEN "a" ELSE IF email = "C" THEN "c" ELSE email

\* the Authorization header of a request: none (or one without a second
\* word), a token jwt.verify rejects, or a payload this server has signed
Credentials ==
    {[kind |-> "none", user |-> NoUser], [kind |-> "invalid", user |-> NoUser]}
        \cup {[kind |-> "valid", user |-> u] : u \in signedTokens}

\* mutant: a token that jwt.verify rejects is let through
authenticateTokenSkipsVerify(cred) ==
    IF cred.kind = "none" THEN 401 ELSE 0

\* authenticateToken: the status it answers with, 0 when it calls next()
authenticateToken(cred) ==
    IF cred.kind = "none" THEN 401
    ELSE IF cred.kind = "invalid" THEN 403
    ELSE 0

ProtectedRoutes ==
    {"verify", "getTests", "postTest", "deleteTest", "getAttempts",
     "postAttempt", "getSync", "postSync"}

Routes == ProtectedRoutes \cup {"register", "login"}

ReadRoutes == {"getTests", "getAttempts", "getSync"}

WriteRoutes == {"postTest", "deleteTest", "postAttempt", "postSync"}

\* req.body and req.params of a request, the fields a route does not read
\* being "-"
NoBody ==
    [id |-> "-", name |-> "-", email |-> "-", password |-> "-",
     tests |-> <<>>, attempts |-> <<>>]

Bodies(route) ==
    CASE route = "postTest" ->
             {[NoBody EXCEPT !.id = "t1", !.name = "x"],
              [NoBody EXCEPT !.id = "t1", !.name = "y"]}
      [] route = "deleteTest" -> {[NoBody EXCEPT !.id = "t1"]}
      [] route = "postSync" ->
             {NoBody,
              [NoBody EXCEPT !.tests = <<[id |-> "t1", name |-> "x"]>>,
                             !.attempts = <<[id |-> 0]>>]}
      [] route = "register" ->
             {[NoBody EXCEPT !.email = "A", !.password = "good"],
              [NoBody EXCEPT !.email = "c", !.password = "good"],
              [NoBody EXCEPT !.email = "C", !.password = "good"],
              [NoBody EXCEPT !.email = "d", !.password = "good"],
              [NoBody EXCEPT !.email = "c", !.password = "short"]}
      [] route = "login" ->
             {[NoBody EXCEPT !.email = "A", !.password = "good"],
              [NoBody EXCEPT !.email = "A", !.password = "bad"],
              [NoBody EXCEPT !.email = "c", !.password = "good"]}
      [] OTHER -> {NoBody}

\* res.status(status).json(...) of a handler of the route, run for the user
Reply(route, user, status) ==
    [NoResponse EXCEPT !.route = route, !.user = user, !.status = status]

\* db.data.tests.filter(t => t.userId === req.user.id)
OwnTests(store, user) ==
    LET Own(t) == t.userId = user.id IN SelectSeq(store.tests, Own)

OwnAttempts(store, user) ==
    LET Own(a) == a.userId = user.id IN SelectSeq(store.attempts, Own)

\* test.userId = req.user.id.  owner is not a field of the code: it is the
\* email of the account whose request stored the record.
StampTest(t, user) ==
    [id |-> t.id, name |-> t.name, userId |-> user.id, owner |-> user.email]

StampAttempt(id, user) == [id |-> id, userId |-> user.id, owner |-> user.email]

\* POST /api/tests on db.data: replace the user's test of that id or push
SaveTest(store, user, body) ==
    LET test == StampTest(body, user)
        Matches(k) == store.tests[k].id = test.id /\ store.tests[k].userId = user.id
        found == {k \in 1..Len(store.tests) : Matches(k)}
        existingIndex == CHOOSE k \in found : \A j \in found : k <= j
    IN  IF found # {}
        THEN [store EXCEPT !.tests[existingIndex] = test]
        ELSE [store EXCEPT !.tests = Append(@, test)]

\* DELETE /api/tests/:id on db.data
DeleteTest(store, user, body) ==
    LET Kept(t) == ~(t.id = body.id /\ t.userId = user.id)
    IN  [store EXCEPT !.tests = SelectSeq(@, Kept)]

\* POST /api/attempts on db.data; id is attempt_${Date.now()} of the arrival
SaveAttempt(store, user, id) ==
    [store EXCEPT !.attempts = Append(@, StampAttempt(id, user))]

\* POST /api/sync on db.data
BulkSync(store, user, body) ==
    LET Other(r) == r.userId # user.id
    IN  [store EXCEPT
            !.tests = SelectSeq(@, Other)
                \o [k \in 1..Len(body.tests) |-> StampTest(body.tests[k], user)],
            !.attempts = SelectSeq(@, Other)
                \o [k \in 1..Len(body.attempts) |->
                       StampAttempt(body.attempts[k].id, user)]]

\* db.data after the synchronous code of a write route
Written(h, store) ==
    CASE h.route = "postTest" -> SaveTest(store, h.user, h.body)
      [] h.route = "deleteTest" -> DeleteTest(store, h.user, h.body)
      [] h.route = "postAttempt" -> SaveAttempt(store, h.user, h.since)
      [] h.route = "postSync" -> BulkSync(store, h.user, h.body)

\* db.data.users.find(u => u.email.toLowerCase() === email.toLowerCase())
FindUser(store, email) ==
    LET found == {k \in 1..Len(store.users) :
                     Lower(store.users[k].email) = Lower(email)}
    IN  IF found = {} THEN NoUser
        ELSE store.users[CHOOSE k \in found : \A j \in found : k <= j]

RemoveHandler(i) ==
    [k \in 1..(Len(handlers) - 1) |-> IF k < i THEN handlers[k] ELSE handlers[k + 1]]

\* the variables of the page, which the backend does not touch
clientVars ==
    <<variant, view, currentTest, currentQuestionIndex, userAnswers,
      questionStatuses, timerInterval, activeIntervals, timeRemaining,
      timePerQuestion, questionStartTime, now, selectedOption,
      performanceHistory, lastToast, pageVars>>

\* a request arrives, elapsed ms after the clock was read last: the middleware
\* and the code of the route up to its first await.  db.read() reads the file
\* as it is at some moment before the handler goes on; the request is taken
\* to arrive at that moment.
Receive(route, cred, body, elapsed) ==
    LET serial == served + 1
        denied == IF route \in ProtectedRoutes THEN authenticateToken(cred) ELSE 0
        user == IF route \in ProtectedRoutes THEN cred.user ELSE NoUser
    IN  /\ Len(handlers) < MaxInFlight
        /\ serverNow + elapsed <= 3 + MaxServerClock
        /\ serverNow' = serverNow + elapsed
        /\ served' = serial
        /\ IF denied # 0
           THEN /\ response' = Reply(route, NoUser, denied)
                /\ UNCHANGED handlers
           ELSE IF route = "verify"
           THEN /\ response' = Reply(route, user, 200)
                /\ UNCHANGED handlers
           ELSE IF route = "register" /\ body.password = "short"
           THEN /\ response' = Reply(route, NoUser, 400)
                /\ UNCHANGED handlers
           ELSE /\ handlers' = Append(handlers,
                       [serial |-> serial, route |-> route, user |-> user,
                        body |-> body, stage |-> "read", since |-> serverNow',
                        snap |-> dbFile])
                /\ UNCHANGED response
        /\ UNCHANGED <<dbFile, dbData, writeQueue, signedTokens, clientVars>>

\* await db.read() of handler i ends: db.data becomes what was read and the
\* handler runs to its next await or to its response
AfterRead(i) ==
    LET h == handlers[i]
        store == Written(h, h.snap)
        known == FindUser(h.snap, h.body.email)
        mine == [Reply(h.route, h.user, 200) EXCEPT
                    !.tests = IF h.route = "getAttempts" THEN <<>>
                              ELSE OwnTests(h.snap, h.user),
                    !.attempts = IF h.route = "getTests" THEN <<>>
                                 ELSE OwnAttempts(h.snap, h.user)]
    IN  /\ h.stage = "read"
        /\ IF h.route \in ReadRoutes
           THEN /\ dbData' = h.snap
                /\ response' = mine
                /\ handlers' = RemoveHandler(i)
                /\ UNCHANGED writeQueue
           ELSE IF h.route \in WriteRoutes
           THEN /\ dbData' = store
                /\ writeQueue' = Append(writeQueue,
                       [serial |-> h.serial, content |-> store])
                /\ handlers' = [handlers EXCEPT ![i].stage = "write"]
                /\ UNCHANGED response
           ELSE IF h.route = "register"
           THEN /\ dbData' = h.snap
                /\ IF known # NoUser
                   THEN /\ response' = Reply(h.route, NoUser, 400)
                        /\ handlers' = RemoveHandler(i)
                   ELSE /\ handlers' = [handlers EXCEPT ![i].stage = "hash",
                                                        ![i].since = serverNow]
                        /\ UNCHANGED response
                /\ UNCHANGED writeQueue
           ELSE /\ dbData' = h.snap
                /\ IF known = NoUser
                   THEN /\ response' = Reply(h.route, NoUser, 401)
                        /\ handlers' = RemoveHandler(i)
                   ELSE /\ handlers' = [handlers EXCEPT ![i].stage = "compare",
                                                        ![i].user = known]
                        /\ UNCHANGED response
                /\ UNCHANGED writeQueue
        /\ UNCHANGED <<dbFile, serverNow, signedTokens, served, clientVars>>

\* await bcrypt.hash of a registration ends, elapsed ms after the clock was
\* read last and later than the hash began: the user is pushed to db.data as
\* it is now and db.write() is called
HashDone(i, elapsed) ==
    LET h == handlers[i]
        user == [id |-> serverNow + elapsed, email |-> Lower(h.body.email)]
        store == [dbData EXCEPT !.users = Append(@, user)]
    IN  /\ h.stage = "hash"
        /\ serverNow + elapsed > h.since
        /\ serverNow + elapsed <= 3 + MaxServerClock
        /\ serverNow' = serverNow + elapsed
        /\ dbData' = store
        /\ writeQueue' = Append(writeQueue, [serial |-> h.serial, content |-> store])
        /\ handlers' = [handlers EXCEPT ![i].stage = "write", ![i].user = user]
        /\ UNCHANGED <<dbFile, signedTokens, served, response, clientVars>>

\* await bcrypt.compare of a login ends
CompareDone(i) ==
    LET h == handlers[i]
    IN  /\ h.stage = "compare"
        /\ IF h.body.password = "good"
           THEN /\ response' = [Reply(h.route, h.user, 200) EXCEPT
                                   !.token = h.user]
                /\ signedTokens' = signedTokens \cup {h.user}
           ELSE /\ response' = Reply(h.route, NoUser, 401)
                /\ UNCHANGED signedTokens
        /\ handlers' = RemoveHandler(i)
        /\ UNCHANGED <<dbFile, dbData, writeQueue, serverNow, served, clientVars>>

\* the write that was called first reaches db.json
WriteLand ==
    /\ writeQueue # <<>>
    /\ dbFile' = Head(writeQueue).content
    /\ writeQueue' = Tail(writeQueue)
    /\ handlers' = [k \in 1..Len(handlers) |->
                       IF handlers[k].serial = Head(writeQueue).serial
                       THEN [handlers[k] EXCEPT !.stage = "written"]
                       ELSE handlers[k]]
    /\ UNCHANGED <<dbData, serverNow, signedTokens, served, response, clientVars>>

\* await db.write() of handler i has ended: the handler answers
Respond(i) ==
    LET h == handlers[i]
    IN  /\ h.stage = "written"
        /\ IF h.route = "register"
           THEN /\ response' = [Reply(h.route, h.user, 201) EXCEPT
                                   !.token = h.user]
                /\ signedTokens' = signedTokens \cup {h.user}
           ELSE /\ response' = Reply(h.route, h.user, 200)
                /\ UNCHANGED signedTokens
        /\ handlers' = RemoveHandler(i)
        /\ UNCHANGED <<dbFile, dbData, writeQueue, serverNow, served, clientVars>>

\* the milliseconds that may pass before Date.now() is read again
Elapsed == 0..MaxServerClock

\* the data routes, called with and without the tokens of the two accounts
\* the store starts with; the clock is read for the id of an attempt only
NextApi ==
    \/ \E route \in ProtectedRoutes, cred \in Credentials :
           \E body \in Bodies(route) :
               \E elapsed \in (IF route = "postAttempt" THEN Elapsed ELSE {0}) :
                   served < MaxRequests /\ Receive(route, cred, body, elapsed)
    \/ \E i \in 1..Len(handlers) : AfterRead(i)
    \/ WriteLand
    \/ \E i \in 1..Len(handlers) : Respond(i)

InitBackend == Init /\ variant = "index"

SpecApi == InitBackend /\ [][NextApi]_vars

\* registration and login, and the tests of the accounts registered
NextAccounts ==
    \/ \E route \in {"register", "login"} :
           \E body \in Bodies(route) :
               /\ served < MaxAccountRequests
               /\ Receive(route, [kind |-> "none", user |-> NoUser], body, 0)
    \/ \E route \in {"postTest", "getTests"}, user \in signedTokens \ {UserA, UserB} :
           /\ served < MaxAccountRequests
           /\ Receive(route, [kind |-> "valid", user |-> user],
                      [NoBody EXCEPT !.id = "t1", !.name = "x"], 0)
    \/ \E i \in 1..Len(handlers) : AfterRead(i)
    \/ \E i \in 1..Len(handlers), elapsed \in Elapsed : HashDone(i, elapsed)
    \/ \E i \in 1..Len(handlers) : CompareDone(i)
    \/ WriteLand
    \/ \E i \in 1..Len(handlers) : Respond(i)

SpecAccounts == InitBackend /\ [][NextAccounts]_vars

----------------------------------------------------------------------------
(* Claims *)

\* a step of startTest(test), from the list or from the detail view
StartStep(test) ==
    \/ StartFromList(test)
    \/ StartFromDetail /\ currentTest = test

\* a step that runs handleSubmitTest: the submit button or the last tick
SubmitStep ==
    \/ SubmitClick(TRUE)
    \/ variant = "part0" /\ SubmitClick(FALSE)
    \/ \E handle \in activeIntervals : TimerTick(handle) /\ timeRemaining - 1 <= 0

\* C1: right after startTest of a test with N questions, for every N >= 0,
\* there are exactly N statuses, all notVisited except notAnswered at index 0,
\* N null answers, the current index is 0 and timeRemaining is duration * 60.
C1_StartTestState ==
    [][\A test \in StoredTests :
           StartStep(test) =>
               /\ Len(questionStatuses') = NumQuestions(test)
               /\ \A k \in 1..Len(questionStatuses') :
                      questionStatuses'[k] = (IF k = 1 THEN NotAnswered ELSE NotVisited)
               /\ Len(userAnswers') = NumQuestions(test)
               /\ \A k \in 1..Len(userAnswers') : userAnswers'[k] = Null
               /\ currentQuestionIndex' = 0
               /\ timeRemaining' = DurationSeconds(test)]_vars

\* C2: a submission, manual or timer-driven, after any select / clear /
\* navigate / mark actions, produces an Attempt whose correct, incorrect and
\* unanswered counts add up to totalQuestions, the N of the test under attempt.
C2_CountsAddUp ==
    [][SubmitStep =>
           LET a == Head(performanceHistory')
           IN  /\ Len(performanceHistory') = Len(performanceHistory) + 1
               /\ a.correctAnswers + a.incorrectAnswers + a.unanswered
                      = a.totalQuestions
               /\ a.totalQuestions = NumQuestions(currentTest)
               /\ view = "attempt" => a.totalQuestions = Len(userAnswers)]_vars

C2_Witness ==
    /\ view = "report"
    /\ Len(performanceHistory) = 2
    /\ Head(performanceHistory).correctAnswers = 1
    /\ Head(performanceHistory).incorrectAnswers = 1
    /\ Head(performanceHistory).totalQuestions = 2

\* C3: the tick that brings the countdown to 0 stops the timer and adds exactly
\* one Attempt; while no interval is active nothing but a new startTest changes
\* timeRemaining or the history, so no further tick or submission follows.
C3_TimeoutSubmitsOnce ==
    [][/\ (activeIntervals # {} /\ timeRemaining' < timeRemaining
              /\ timeRemaining' <= 0 /\ ~(\E test \in StoredTests : StartStep(test)))
          => /\ activeIntervals' = {}
             /\ timerInterval' = NoTimer
             /\ Len(performanceHistory') = Len(performanceHistory) + 1
             /\ Tail(performanceHistory') = performanceHistory
             /\ currentTest' = NoTest
             /\ view' # "attempt"
       /\ (activeIntervals = {} /\ ~(\E test \in StoredTests : StartStep(test)))
          => /\ timeRemaining' = timeRemaining
             /\ performanceHistory' = performanceHistory
             /\ activeIntervals' = {}]_vars

C3_Witness ==
    /\ activeIntervals = {}
    /\ timerInterval = NoTimer
    /\ currentTest = NoTest
    /\ timeRemaining = 0
    /\ Len(performanceHistory) = 2
    /\ Head(performanceHistory).timeTaken = 2

\* the percentage the score formula gives with the test's own marks
OwnMarksScore(a) ==
    LET test == a.fullTest
    IN  Frac(Max(0, ((a.correctAnswers * test.marksPerQuestion)
                        - (a.incorrectAnswers * test.negativeMarking)) * 100),
             a.totalQuestions * test.marksPerQuestion)

\* C4: every Attempt of a test with questions, also of a test whose stored
\* negativeMarking is 0, has score max(0, (correct * marksPerQuestion -
\* incorrect * negativeMarking) / (totalQuestions * marksPerQuestion)) * 100
\* with the test's own marksPerQuestion and negativeMarking.
C4_ScoreUsesOwnMarks ==
    \A k \in 1..Len(performanceHistory) :
        LET a == performanceHistory[k]
        IN  (a.totalQuestions > 0 /\ a.fullTest.marksPerQuestion > 0)
                => a.score = OwnMarksScore(a)

\* the score a submission would store for the committed answers
CommittedCorrect == CountOf(currentTest, userAnswers, "correct")

CommittedIncorrect == CountOf(currentTest, userAnswers, "incorrect")

CommittedScore == ScorePercentage(currentTest, CommittedCorrect, CommittedIncorrect)

\* C5: for a fixed test the score computed from the committed answers does not
\* decrease when an unanswered question becomes correct, does not increase
\* when an unanswered question becomes incorrect, and is never below 0.
C5_ScoreMonotone ==
    /\ [][(currentTest # NoTest /\ currentTest' = currentTest) =>
              /\ (CommittedCorrect' = CommittedCorrect + 1
                     /\ CommittedIncorrect' = CommittedIncorrect)
                 => FracLeq(CommittedScore, CommittedScore')
              /\ (CommittedIncorrect' = CommittedIncorrect + 1
                     /\ CommittedCorrect' = CommittedCorrect)
                 => FracLeq(CommittedScore', CommittedScore)]_vars
    /\ [](currentTest # NoTest => CommittedScore.num >= 0 /\ CommittedScore.den > 0)
    /\ [](\A k \in 1..Len(performanceHistory) :
              performanceHistory[k].score.num >= 0)

C5_Witness ==
    /\ view = "attempt"
    /\ currentTest = TestA
    /\ CommittedCorrect = 1
    /\ CommittedIncorrect = 1
    /\ CommittedScore = Frac(67, 2)

\* C6: a submission commits the checked option (or null) of the current
\* question and then counts every question: correct iff the committed answer
\* is the stored correct index, incorrect iff an answer exists and differs,
\* unanswered iff no answer exists.
C6_CommitThenClassify ==
    [][SubmitStep =>
           LET a == Head(performanceHistory')
               committed == ArrSet(userAnswers, currentQuestionIndex, selectedOption)
               given(k) == ArrGet(committed, k - 1)
               exists(k) == given(k) # Null /\ given(k) # Undefined
               questions == 1..NumQuestions(currentTest)
           IN  /\ userAnswers' = committed
               /\ a.userAnswers = JsonArray(committed)
               /\ a.correctAnswers = Cardinality({k \in questions :
                      given(k) = currentTest.questions[k].answer})
               /\ a.incorrectAnswers = Cardinality({k \in questions :
                      exists(k) /\ given(k) # currentTest.questions[k].answer})
               /\ a.unanswered = Cardinality({k \in questions : ~exists(k)})]_vars

\* C6 for the submissions made from the attempt view
C6_InAttemptView ==
    [][(view = "attempt" /\ SubmitStep) =>
           LET a == Head(performanceHistory')
               committed == ArrSet(userAnswers, currentQuestionIndex, selectedOption)
               given(k) == ArrGet(committed, k - 1)
               questions == 1..NumQuestions(currentTest)
           IN  /\ a.userAnswers = committed
               /\ a.correctAnswers = Cardinality({k \in questions :
                      given(k) = currentTest.questions[k].answer})
               /\ a.incorrectAnswers = Cardinality({k \in questions :
                      given(k) # Null /\ given(k) # currentTest.questions[k].answer})
               /\ a.unanswered = Cardinality({k \in questions : given(k) = Null})]_vars

\* C7: a submission with an active test stores the new Attempt at index 0 in
\* front of the previous history, which is kept as it was, and clears the
\* active test; nothing else changes the history.
C7_HistoryPrepended ==
    [][/\ (SubmitStep /\ currentTest # NoTest)
          => /\ Len(performanceHistory') = Len(performanceHistory) + 1
             /\ Head(performanceHistory').testId = currentTest.id
             /\ Head(performanceHistory').fullTest = currentTest
             /\ Tail(performanceHistory') = performanceHistory
             /\ currentTest' = NoTest
       /\ performanceHistory' # performanceHistory => SubmitStep]_vars

C7_Witness ==
    /\ Len(performanceHistory) = 2
    /\ performanceHistory[1].testId = "tA"
    /\ performanceHistory[2] = PriorAttempt
    /\ currentTest = NoTest

\* C8: handleSubmitTest called with no active test adds no Attempt, shows the
\* main view (dashboard) and not the attempt or report view, and leaves no
\* timer running.
C8_SubmitWithoutTest ==
    [][DirectSubmit =>
           /\ performanceHistory' = performanceHistory
           /\ view' = "main"
           /\ activeIntervals' = {}
           /\ timerInterval' = NoTimer
           /\ currentTest' = NoTest]_vars

C8_Witness ==
    /\ lastToast = "missing"
    /\ view = "main"
    /\ currentTest = NoTest
    /\ Len(performanceHistory) = 2

\* C9: a declined abandon changes no answer, status, index or timeRemaining
\* and leaves one countdown running; a confirmed abandon adds no Attempt,
\* clears the active test and leaves no interval to tick.
C9_AbandonNeedsConfirmation ==
    [][/\ AbandonClick(FALSE)
          => /\ UNCHANGED <<userAnswers, questionStatuses, currentQuestionIndex,
                            timeRemaining, currentTest, view, performanceHistory>>
             /\ timerInterval' # NoTimer
             /\ activeIntervals' = {timerInterval'}
       /\ AbandonClick(TRUE)
          => /\ performanceHistory' = performanceHistory
             /\ currentTest' = NoTest
             /\ view' # "attempt"
             /\ timerInterval' = NoTimer
             /\ activeIntervals' = {}]_vars

C9_Witness ==
    /\ currentTest = NoTest
    /\ view \in {"main", "allTests"}
    /\ Len(userAnswers) = 2
    /\ userAnswers[1] # Null
    /\ timeRemaining = 1
    /\ activeIntervals = {}
    /\ performanceHistory = <<PriorAttempt>>

\* the status saveCurrentAnswer leaves for a question
RecomputedStatus(before, selected) ==
    IF selected # Null
    THEN (IF before \in {Marked, MarkedAndAnswered} THEN MarkedAndAnswered ELSE Answered)
    ELSE (IF before \in {Marked, MarkedAndAnswered} THEN before ELSE NotAnswered)

\* C10: navigateToQuestion(j) with j >= N or j < 0 keeps currentQuestionIndex,
\* commits the checked option (or null) as the current answer and recomputes
\* its status; during an attempt with N >= 1 the index stays within 0..N-1.
C10_OutOfBoundsNavigation ==
    /\ [][/\ ((SaveAndNext /\ currentQuestionIndex + 1 >= NumQuestions(currentTest))
                 \/ (PreviousQuestion /\ currentQuestionIndex - 1 < 0))
             => /\ currentQuestionIndex' = currentQuestionIndex
                /\ userAnswers' = [userAnswers EXCEPT
                       ![currentQuestionIndex + 1] = selectedOption]
                /\ questionStatuses' = [questionStatuses EXCEPT
                       ![currentQuestionIndex + 1] =
                           RecomputedStatus(@, selectedOption)]
          /\ (MarkForReview /\ currentQuestionIndex + 1 >= NumQuestions(currentTest))
             => /\ currentQuestionIndex' = currentQuestionIndex
                /\ userAnswers' = [userAnswers EXCEPT
                       ![currentQuestionIndex + 1] = selectedOption]
                /\ questionStatuses' = [questionStatuses EXCEPT
                       ![currentQuestionIndex + 1] =
                           IF selectedOption # Null THEN MarkedAndAnswered
                           ELSE IF @ \in {Answered, MarkedAndAnswered}
                                THEN MarkedAndAnswered ELSE Marked]]_vars
    /\ []((view = "attempt" /\ currentTest # NoTest)
             => /\ NumQuestions(currentTest) >= 1
                /\ currentQuestionIndex \in 0..(NumQuestions(currentTest) - 1)
                /\ Len(userAnswers) = NumQuestions(currentTest)
                /\ Len(questionStatuses) = NumQuestions(currentTest))

\* the first question's answer was committed while the second was never
\* visited: only a navigation below index 0 does that
C10_Witness ==
    /\ view = "attempt"
    /\ NumQuestions(currentTest) = 2
    /\ currentQuestionIndex = 0
    /\ userAnswers[1] # Null
    /\ questionStatuses = <<Answered, NotVisited>>

\* a step that calls navigateToQuestion
NavigateStep ==
    \/ SaveAndNext
    \/ PreviousQuestion
    \/ MarkForReview
    \/ \E newIndex \in 0..1 : PaletteClick(newIndex)

\* C11: every navigateToQuestion call in an attempt, out of bounds or not,
\* restarts the accumulation (questionStartTime becomes the current time) and
\* adds the time since the last restart to one bucket once, so the accounted
\* time does not change; a submission stores buckets that sum to it.
C11_TimeAccounting ==
    [][/\ (view = "attempt" /\ NavigateStep)
          => /\ questionStartTime' = now
             /\ Accounted' = Accounted
       /\ (view = "attempt" /\ SubmitStep)
          => SumSeq(Head(performanceHistory').timePerQuestion) = Accounted]_vars

\* C12: selecting an option or clearing the selection changes neither
\* userAnswers nor questionStatuses; only a navigation (mark for review
\* included), a submission or the start of a test changes them.
C12_SelectionNotCommitted ==
    [][/\ ((\E option \in Options : SelectOption(option)) \/ ClearResponse)
          => UNCHANGED <<userAnswers, questionStatuses>>
       /\ (userAnswers' # userAnswers \/ questionStatuses' # questionStatuses)
          => \/ NavigateStep
             \/ SubmitStep
             \/ \E test \in StoredTests : StartStep(test)]_vars

\* an answered question whose selection was cleared and not yet saved
C12_Witness ==
    /\ view = "attempt"
    /\ selectedOption = Null
    /\ ArrGet(userAnswers, currentQuestionIndex) \in Options
    /\ StatusGet(questionStatuses, currentQuestionIndex) = Answered

\* C13: mark for review on a question that is notAnswered or answered leaves
\* it marked with a null answer when no option is selected at that moment, and
\* markedAndAnswered with the selected option as its answer otherwise.
C13_MarkForReview ==
    [][(/\ MarkForReview
        /\ StatusGet(questionStatuses, currentQuestionIndex) \in {NotAnswered, Answered})
          => IF selectedOption = Null
             THEN /\ StatusGet(questionStatuses', currentQuestionIndex) = Marked
                  /\ ArrGet(userAnswers', currentQuestionIndex) = Null
             ELSE /\ StatusGet(questionStatuses', currentQuestionIndex) = MarkedAndAnswered
                  /\ ArrGet(userAnswers', currentQuestionIndex) = selectedOption]_vars

\* C14: within an attempt a question that is marked or markedAndAnswered
\* stays marked or markedAndAnswered whatever is selected, cleared, navigated,
\* marked or submitted; only the start of a test resets the statuses.
C14_MarkIsKept ==
    [][~(\E test \in StoredTests : StartStep(test))
          => \A k \in 0..(Len(questionStatuses) - 1) :
                 StatusGet(questionStatuses, k) \in {Marked, MarkedAndAnswered}
                     => StatusGet(questionStatuses', k) \in {Marked, MarkedAndAnswered}]_vars

\* a question that kept its mark after its answer was cleared and saved
C14_Witness ==
    /\ view = "attempt"
    /\ \E k \in 0..(Len(questionStatuses) - 1) :
           /\ StatusGet(questionStatuses, k) = MarkedAndAnswered
           /\ ArrGet(userAnswers, k) = Null

\* C15: at most one countdown interval is live, the one timerInterval names,
\* and but for the start of a test timeRemaining goes down only by a tick of
\* that interval, by 1.
C15_OneCountdown ==
    /\ [](/\ Cardinality(activeIntervals) <= 1
          /\ activeIntervals = (IF timerInterval = NoTimer THEN {} ELSE {timerInterval}))
    /\ [][(timeRemaining' < timeRemaining
                /\ ~(\E test \in StoredTests : StartStep(test)))
             => /\ timeRemaining' = timeRemaining - 1
                /\ activeIntervals = {timerInterval}
                /\ TimerTick(timerInterval)]_vars

\* a countdown that was started, then stopped and started again by a declined
\* abandon, and has ticked
C15_Witness ==
    /\ variant = "part0"
    /\ view = "attempt"
    /\ activeIntervals = {timerInterval}
    /\ timeRemaining = 1

\* a confirmed restore of a readable backup
RestoreStep(data) == data.ok /\ IsBackup(data) /\ RestoreBackup(data, TRUE)

\* C16: after a confirmed restore, whatever the backup and the local list
\* hold, no two tests of the stored list have the same id.
C16_RestoredIdsUnique ==
    [][\A data \in BackupFiles :
           RestoreStep(data) =>
               \A j, k \in 1..Len(tests') :
                   tests'[j].id = tests'[k].id => j = k]_vars

\* the list a confirmed restore stored, with both ids in it
C16_Witness ==
    /\ lastToast = "restored"
    /\ Len(tests) = 2
    /\ tests[1].id # tests[2].id

\* C17: when the backup holds a test whose id the local list holds with
\* different content, the test stored under that id after the restore is a
\* version from the backup, not the local one.
C17_BackupVersionWins ==
    [][\A data \in BackupFiles :
           (RestoreStep(data) /\ data.hasTests) =>
               \A b \in 1..Len(data.tests) :
                   (/\ \E l \in 1..Len(tests) : tests[l].id = data.tests[b].id
                    /\ \A l \in 1..Len(tests) :
                           tests[l].id = data.tests[b].id => tests[l] # data.tests[b])
                       => \E k \in 1..Len(tests'), c \in 1..Len(data.tests) :
                              /\ tests'[k].id = data.tests[b].id
                              /\ tests'[k] = data.tests[c]]_vars

\* C18: an attempt without a correct or an incorrect answer, whatever its
\* number of questions, has accuracy 0 in the report and stored score 0.
C18_AllUnanswered ==
    \A k \in 1..Len(performanceHistory) :
        LET a == performanceHistory[k]
        IN  (a.correctAnswers = 0 /\ a.incorrectAnswers = 0)
                => /\ Accuracy(a) = Frac(0, 1)
                   /\ a.score = Frac(0, 1)

\* the report of a submitted attempt with both questions unanswered
C18_Witness ==
    /\ view = "report"
    /\ Head(performanceHistory).totalQuestions = 2
    /\ Head(performanceHistory).unanswered = 2

\* an attempt of a test without questions is stored as well
C18_NoQuestions ==
    /\ Head(performanceHistory).totalQuestions = 0
    /\ Head(performanceHistory).unanswered = 0

\* the calendar days of the stored attempts and of the clock
AttemptDays == {DayOf(timeZone, performanceHistory[k].completedAt) :
                   k \in 1..Len(performanceHistory)}

Today == DayOf(timeZone, now)

\* the number of consecutive days of the set that end with day d
RECURSIVE RunEndingAt(_, _)
RunEndingAt(days, d) == IF d \in days THEN 1 + RunEndingAt(days, d - 1) ELSE 0

\* the streak by the calendar: the run that ends at today or yesterday
CalendarStreak ==
    IF Today \in AttemptDays THEN RunEndingAt(AttemptDays, Today)
    ELSE RunEndingAt(AttemptDays, Today - 1)

\* a step that calls updateDashboardStats
DashboardStep ==
    \/ Navigate("main")
    \/ \E clock \in ClockInstants(timeZone),
          history \in SeqsUpTo(DatedAttempts(timeZone), MaxStreakHistory) :
           LoadPage(clock, history)

\* C19: the streak calculateStreak returns is the length of the unbroken run
\* of calendar days with an attempt that ends at today or yesterday, 0 for an
\* empty history or a last attempt day before yesterday.
C19_StreakIsCalendarRun ==
    [][DashboardStep => streakCount' = CalendarStreak']_vars

\* C19 for the time zones without daylight saving
C19_FixedOffset ==
    [][(DashboardStep /\ timeZone = FixedOffset)
          => streakCount' = CalendarStreak']_vars

\* C20: while a call of handleGenerateTest is suspended the button is
\* disabled and the loader shown, so at most one request is in flight; once
\* the button is disabled it is enabled again, with the loader hidden, when
\* the call ends, whichever way it ends.
C20_ButtonRestored ==
    /\ [](Len(pendingRequests) <= 1)
    /\ [](pendingRequests # <<>> => generateDisabled /\ ~loaderHidden)
    /\ [](pendingRequests = <<>> => ~generateDisabled /\ loaderHidden)
    /\ (generateDisabled ~> (~generateDisabled /\ loaderHidden))

\* a request suspended in generateContent, made with the button that the
\* failure of an earlier call enabled again
C20_Witness ==
    /\ pendingRequests = <<"ai">>
    /\ generateDisabled
    /\ ~loaderHidden
    /\ lastToast = "generateFailed"

\* a step in which a call of handleGenerateTest ends in its catch block
GenerateFailureStep ==
    \/ GenerateClick("invalid")
    \/ \E i \in 1..Len(pendingRequests) : FileRead(i, FALSE)
    \/ \E i \in 1..Len(pendingRequests), outcome \in Outcomes \ {"questions"} :
           GenerateSettled(i, outcome)

\* C21: when a generation fails, by the validation of the input or by the
\* external service, no test is created: the handler's failing step leaves
\* currentTest, the stored test list and the displayed view as they were.
C21_FailedGenerationCreatesNothing ==
    [][GenerateFailureStep => UNCHANGED <<currentTest, tests, view>>]_vars

\* C21 for the failures that throw before currentTest is assigned
C21_FailuresBeforeAssignment ==
    [][(\/ GenerateClick("invalid")
        \/ \E i \in 1..Len(pendingRequests) : FileRead(i, FALSE)
        \/ \E i \in 1..Len(pendingRequests), outcome \in {"unusable", "error"} :
               GenerateSettled(i, outcome))
          => UNCHANGED <<currentTest, tests, view>>]_vars

\* a request to a protected route that authenticateToken turns away
DeniedRequest(route, cred) ==
    \E body \in Bodies(route), elapsed \in Elapsed : Receive(route, cred, body, elapsed)

\* C22: on every route but register and login a request without a bearer
\* token is answered 401 and one with an invalid or expired token 403, and the
\* handler does not run: the store is unchanged, nothing is suspended or
\* written and the response carries no stored data.
C22_TokenRequired ==
    [][\A route \in ProtectedRoutes, kind \in {"none", "invalid"} :
           DeniedRequest(route, [kind |-> kind, user |-> NoUser])
               => /\ response'.status = (IF kind = "none" THEN 401 ELSE 403)
                  /\ response'.route = route
                  /\ response'.user = NoUser
                  /\ response'.tests = <<>>
                  /\ response'.attempts = <<>>
                  /\ UNCHANGED <<dbFile, dbData, handlers, writeQueue, signedTokens>>]_vars

\* a sync request with a rejected token, answered 403 while the store holds
\* a test and an attempt
C22_Witness ==
    /\ response.route = "getSync"
    /\ response.status = 403
    /\ dbFile.tests # <<>>
    /\ dbFile.attempts # <<>>

\* the handler of a read route goes on after db.read() and answers
ReadStep(i) == handlers[i].route \in ReadRoutes /\ AfterRead(i)

\* C23: every record GET /api/tests, /api/attempts and /api/sync return to
\* an authenticated account has that account's id as userId, and the response
\* does not depend on what other accounts stored: every record returned was
\* stored by a request of the account itself.
C23_OwnRecordsOnly ==
    [][\A i \in 1..Len(handlers) :
           ReadStep(i) =>
               /\ response'.status = 200
               /\ \A k \in 1..Len(response'.tests) :
                      /\ response'.tests[k].userId = handlers[i].user.id
                      /\ response'.tests[k].owner = handlers[i].user.email
               /\ \A k \in 1..Len(response'.attempts) :
                      /\ response'.attempts[k].userId = handlers[i].user.id
                      /\ response'.attempts[k].owner = handlers[i].user.email]_vars

\* C23 for the accounts whose id no account with another email has
C23_DistinctIds ==
    [][\A i \in 1..Len(handlers) :
           (/\ ReadStep(i)
            /\ \A k \in 1..Len(dbFile.users) :
                   dbFile.users[k].id = handlers[i].user.id
                       => dbFile.users[k].email = handlers[i].user.email) =>
               /\ \A k \in 1..Len(response'.tests) :
                      response'.tests[k].owner = handlers[i].user.email
               /\ \A k \in 1..Len(response'.attempts) :
                      response'.attempts[k].owner = handlers[i].user.email]_vars

\* C24: in every state of an attempt, for every question, the stored answer
\* is non-null if and only if the status is answered or markedAndAnswered.
C24_AnswerIffAnsweredStatus ==
    (view = "attempt" /\ currentTest # NoTest) =>
        \A k \in 0..(NumQuestions(currentTest) - 1) :
            (ArrGet(userAnswers, k) # Null)
                <=> (StatusGet(questionStatuses, k) \in {Answered, MarkedAndAnswered})

\* C24 for the statuses that carry no mark
C24_UnmarkedQuestions ==
    (view = "attempt" /\ currentTest # NoTest) =>
        \A k \in 0..(NumQuestions(currentTest) - 1) :
            /\ StatusGet(questionStatuses, k) = Answered
                   => ArrGet(userAnswers, k) # Null
            /\ StatusGet(questionStatuses, k) \in {NotVisited, NotAnswered, Marked}
                   => ArrGet(userAnswers, k) = Null

\* a step that ends the attempt: a submission or a confirmed abandon
EndStep == SubmitStep \/ AbandonClick(TRUE)

\* C25: while the countdown runs the attempt view is shown and currentTest is
\* the test that was started; only a submission or a confirmed abandon leaves
\* the attempt view or changes currentTest while the countdown runs.
C25_AttemptNotLeft ==
    /\ [](activeIntervals # {} => (view = "attempt" /\ currentTest # NoTest))
    /\ [][(view = "attempt" /\ view' # "attempt") => EndStep]_vars
    /\ [][(activeIntervals # {} /\ currentTest' # currentTest) => EndStep]_vars

\* C25 for the build without the create button in the attempt view
C25_Part0 ==
    /\ []((variant = "part0" /\ activeIntervals # {})
             => (view = "attempt" /\ currentTest # NoTest))
    /\ [][(variant = "part0" /\ view = "attempt" /\ view' # "attempt") => EndStep]_vars
    /\ [][(variant = "part0" /\ activeIntervals # {} /\ currentTest' # currentTest)
             => EndStep]_vars

\* a step in which a suspended call of handleGenerateTest ends
GenerateEndStep ==
    \/ \E i \in 1..Len(pendingRequests) : FileRead(i, FALSE)
    \/ \E i \in 1..Len(pendingRequests), outcome \in Outcomes :
           GenerateSettled(i, outcome)

\* C26: when a generation request ends, with questions or with a failure,
\* while an attempt started in the meantime is running, currentTest and the
\* attempt view stay as they are, so that every Attempt stored is scored
\* against a test that was started.
C26_GenerationLeavesAttempt ==
    /\ [][(activeIntervals # {} /\ view = "attempt" /\ GenerateEndStep)
             => UNCHANGED <<currentTest, view>>]_vars
    /\ [](\A k \in 1..Len(performanceHistory) :
              performanceHistory[k].fullTest \in StoredTests \cup {TestOld})

\* C26 for the requests that fail before currentTest is assigned
C26_FailedRequests ==
    [][(/\ activeIntervals # {}
        /\ view = "attempt"
        /\ \/ \E i \in 1..Len(pendingRequests) : FileRead(i, FALSE)
           \/ \E i \in 1..Len(pendingRequests), outcome \in {"unusable", "error"} :
                  GenerateSettled(i, outcome))
          => UNCHANGED <<currentTest, view>>]_vars

\* the duration of the test is a whole number of minutes
IntegerDuration(test) == test.duration.den = 1

\* C27: for a test with a non-negative integer duration, 0 included,
\* timeRemaining is within 0..duration*60 in every state of its attempt and
\* every Attempt stored for it has timeTaken within 0..duration*60.
C27_TimeWithinDuration ==
    /\ (currentTest # NoTest /\ view = "attempt" /\ IntegerDuration(currentTest))
           => timeRemaining \in 0..DurationSeconds(currentTest)
    /\ \A k \in 1..Len(performanceHistory) :
           LET a == performanceHistory[k]
           IN  IntegerDuration(a.fullTest)
                   => a.timeTaken \in 0..DurationSeconds(a.fullTest)

\* C27 for the tests whose countdown starts above 0, whatever the duration,
\* in the build whose attempt view cannot be left while the countdown runs
C27_PositiveDuration ==
    variant = "part0" =>
        /\ (currentTest # NoTest /\ view = "attempt" /\ DurationSeconds(currentTest) > 0)
               => timeRemaining \in 0..DurationSeconds(currentTest)
        /\ \A k \in 1..Len(performanceHistory) :
               LET a == performanceHistory[k]
               IN  DurationSeconds(a.fullTest) > 0
                       => a.timeTaken \in 0..DurationSeconds(a.fullTest)

\* C28: under any interleaving of registrations the stored user list never
\* holds two users whose emails are equal ignoring case.
C28_EmailsUnique ==
    \A j, k \in 1..Len(dbFile.users) :
        Lower(dbFile.users[j].email) = Lower(dbFile.users[k].email) => j = k

\* C28 for a registration whose db.read() returns a file that holds the
\* email already: it is answered 400 and pushes no user
C28_KnownEmailRejected ==
    [][\A i \in 1..Len(handlers) :
           (/\ handlers[i].route = "register"
            /\ FindUser(handlers[i].snap, handlers[i].body.email) # NoUser
            /\ AfterRead(i))
               => /\ response'.route = "register"
                  /\ response'.status = 400
                  /\ Len(handlers') = Len(handlers) - 1
                  /\ UNCHANGED <<dbFile, writeQueue>>]_vars

\* the handler whose db.write() reaches the file next
LandingHandler ==
    handlers[CHOOSE i \in 1..Len(handlers) :
                 handlers[i].serial = Head(writeQueue).serial]

\* every request of the account has been answered
AllAnswered(email) ==
    \A i \in 1..Len(handlers) : handlers[i].user.email # email

\* the records of the sequence that an account other than the writer stored
\* and whose requests have all been answered are in the sequence after
KeptForOthers(before, after, writer) ==
    \A k \in 1..Len(before) :
        (before[k].owner # writer.user.email /\ AllAnswered(before[k].owner))
            => \E j \in 1..Len(after) : after[j] = before[k]

\* C29: under any interleaving of handlers, a write request of one account
\* never removes, alters or loses a stored record of another account whose
\* own write requests have been answered.
C29_OthersRecordsKept ==
    [][WriteLand =>
           /\ KeptForOthers(dbFile.tests, dbFile'.tests, LandingHandler)
           /\ KeptForOthers(dbFile.attempts, dbFile'.attempts, LandingHandler)]_vars

\* C29 for a write request whose db.read() returned the file as it is when
\* its own write reaches it
C29_FreshRead ==
    [][(WriteLand /\ LandingHandler.snap = dbFile) =>
           /\ KeptForOthers(dbFile.tests, dbFile'.tests, LandingHandler)
           /\ KeptForOthers(dbFile.attempts, dbFile'.attempts, LandingHandler)]_vars

\* C30: restoring the same backup a second time leaves the stored test list
\* and the stored performanceHistory as the first restore left them.
C30_RestoreIdempotent ==
    [][\A data \in BackupFiles :
           RestoreStep(data) =>
               /\ UniqueTests(NewTests(data, tests')) = tests'
               /\ NewHistory(data, performanceHistory') = performanceHistory']_vars

\* C30 for the test list, and for the history when the backup holds no
\* attempt
C30_TestsIdempotent ==
    [][\A data \in BackupFiles :
           RestoreStep(data) =>
               /\ UniqueTests(NewTests(data, tests')) = tests'
               /\ (~data.hasHistory \/ data.performanceHistory = <<>>)
                      => NewHistory(data, performanceHistory') = performanceHistory']_vars

====
